---- MODULE Spec2Model ----
(***************************************************************************)
(* Model of the ghetto-llvm compiler pipeline: Tokenizer -> AstParser ->   *)
(* IrGenerator -> CBackend.  A character is a string naming one Rust       *)
(* `char`; a String is a sequence of characters; the UTF-8 length of a     *)
(* character is kept so that byte offsets and char counts can differ.      *)
(***************************************************************************)
EXTENDS Integers, Sequences, FiniteSets, TLC

VARIABLES source, pc, lexed, parsed, ir, out

vars == <<source, pc, lexed, parsed, ir, out>>

(***************************************************************************)
(* Bounds                                                                  *)
(***************************************************************************)
MaxSrcLen == 5

MaxExprToks == 7

MaxJunkToks == 3

MaxStmts == 3

MaxWordLen == 4

(***************************************************************************)
(* Characters                                                              *)
(***************************************************************************)
\* char::is_ascii_digit
Digits == {"0", "1", "2", "3", "4", "5", "6", "7", "8", "9"}

is_ascii_digit(c) == c \in Digits

\* char::is_whitespace (Unicode White_Space): NBSP is U+00A0, EMSP is U+2003
Whitespace == {" ", "\t", "\n", "\r", "NBSP", "EMSP"}

is_whitespace(c) == c \in Whitespace

\* char::len_utf8, the number of bytes the character takes in a String
len_utf8(c) == IF c = "NBSP" THEN 2 ELSE IF c = "EMSP" THEN 3 ELSE 1

\* the characters of the three operator arms of tokenize
OperatorChars == {"+", "-", "*"}

BinaryOpOf(c) == IF c = "+" THEN "Plus" ELSE IF c = "-" THEN "Minus" ELSE "Star"

\* Option<T>: None is <<>>, Some(v) is <<v>>
None == <<>>

Some(v) == <<v>>

is_some_and(o, P(_)) == o /= None /\ P(o[1])

\* Vec::reverse
Reverse(s) == [i \in 1..Len(s) |-> s[Len(s) + 1 - i]]

\* Vec::pop (the vector that is left)
Pop(s) == IF s = <<>> THEN <<>> ELSE SubSeq(s, 1, Len(s) - 1)

\* Vec::last
Last(s) == IF s = <<>> THEN None ELSE Some(s[Len(s)])

\* str::len, in bytes
RECURSIVE StrLen(_)
StrLen(s) == IF s = <<>> THEN 0 ELSE len_utf8(Head(s)) + StrLen(Tail(s))

(***************************************************************************)
(* Tokens                                                                  *)
(***************************************************************************)
NumberToken(raw, offset) ==
    [kind |-> "Number", raw |-> raw, flags |-> <<>>, offset |-> offset]

BinaryOperatorToken(op, offset) ==
    [kind |-> "BinaryOperator", op |-> op, offset |-> offset]

(***************************************************************************)
(* Tokenizer                                                               *)
(***************************************************************************)
Tokenizer_new(source_code) ==
    [source |-> Reverse(source_code), not_changed |-> source_code, offset |-> 0]

Tokenizer_finished(self) == self.source = <<>>

Tokenizer_peek(self) == Last(self.source)

Tokenizer_consume(self) ==
    [self EXCEPT !.offset = @ + 1, !.source = Pop(@)]

RECURSIVE trim_whitespace(_)
trim_whitespace(self) ==
    IF is_some_and(Tokenizer_peek(self), is_whitespace)
    THEN trim_whitespace(Tokenizer_consume(self))
    ELSE self

\* str::lines: split after every "\n", drop the "\n" and a "\r" right before it;
\* a last line without terminator is yielded as it is, when it is not empty
RECURSIVE LinesFrom(_, _)
LinesFrom(s, cur) ==
    IF s = <<>>
    THEN IF cur = <<>> THEN <<>> ELSE <<cur>>
    ELSE IF Head(s) = "\n"
         THEN <<IF cur /= <<>> /\ cur[Len(cur)] = "\r" THEN Pop(cur) ELSE cur>>
              \o LinesFrom(Tail(s), <<>>)
         ELSE LinesFrom(Tail(s), Append(cur, Head(s)))

Lines(s) == LinesFrom(s, <<>>)

\* the for loop of location_from_offset, from line number `index` (0-based) on
RECURSIVE location_loop(_, _, _, _, _)
location_loop(lines, index, offset, line_start, newline_count) ==
    IF index >= Len(lines)
    THEN None
    ELSE LET line_end == line_start + StrLen(lines[index + 1])
         IN  IF offset >= line_start /\ offset <= line_end
             THEN Some(<<newline_count + 1, (offset - line_start) + 1>>)
             ELSE location_loop(lines, index + 1, offset, line_end + 1, index + 1)

location_from_offset(input, offset) ==
    IF offset > StrLen(input)
    THEN None
    ELSE location_loop(Lines(input), 0, offset, 0, 0)

LexOk(tokens) ==
    [status |-> "Ok", tokens |-> tokens, char |-> None, line |-> 0, column |-> 0]

\* Err(TokenizeError::UnexpectedChar) with the attached character and location
LexErr(c, location) ==
    [status |-> "UnexpectedChar", tokens |-> <<>>, char |-> c,
     line |-> location[1], column |-> location[2]]

\* the panic of .expect("Something really bad happened")
LexPanic ==
    [status |-> "Panic", tokens |-> <<>>, char |-> None, line |-> 0, column |-> 0]

\* the inner while loop that collects a run of digits: <<tokenizer, buffer>>
RECURSIVE lexDigits(_, _)
lexDigits(self, buffer) ==
    IF is_some_and(Tokenizer_peek(self), is_ascii_digit)
    THEN lexDigits(Tokenizer_consume(self), Append(buffer, Tokenizer_peek(self)[1]))
    ELSE <<self, buffer>>

\* lexNumber without the inner loop: one digit per Number token
lexNumberOneDigit(self) ==
    <<Tokenizer_consume(self), NumberToken(<<Tokenizer_peek(self)[1]>>, self.offset)>>

\* the Number arm: the token and the tokenizer after it
lexNumber(self) ==
    LET r == lexDigits(self, <<>>)
    IN  <<r[1], NumberToken(r[2], self.offset)>>

\* the three operator arms: the token and the tokenizer after it
lexOperator(self) ==
    <<Tokenizer_consume(self),
      BinaryOperatorToken(BinaryOpOf(Tokenizer_peek(self)[1]), self.offset)>>

\* the error arm `c => ...`
lexError(self) ==
    LET location == location_from_offset(self.not_changed, self.offset)
    IN  IF location = None THEN LexPanic
        ELSE LexErr(Tokenizer_peek(self), location[1])

\* the outer while loop of tokenize
RECURSIVE tokenizeLoop(_, _)
tokenizeLoop(self0, tokens) ==
    IF Tokenizer_finished(self0)
    THEN LexOk(tokens)
    ELSE LET self == trim_whitespace(self0)
             p == Tokenizer_peek(self)
         IN  IF is_some_and(p, is_ascii_digit)
             THEN LET r == lexNumber(self)
                  IN  tokenizeLoop(r[1], Append(tokens, r[2]))
             ELSE IF p = None
             THEN LexOk(tokens)
             ELSE IF p[1] \in OperatorChars
             THEN LET r == lexOperator(self)
                  IN  tokenizeLoop(r[1], Append(tokens, r[2]))
             ELSE lexError(self)

tokenize(source_code) == tokenizeLoop(Tokenizer_new(source_code), <<>>)

(***************************************************************************)
(* Tokens of the full grammar, as AstParser matches them                   *)
(***************************************************************************)
IdentifierToken(name) == [kind |-> "Identifier", name |-> name]

LetToken == [kind |-> "Let"]

ExitToken == [kind |-> "Exit"]

ColonToken == [kind |-> "Colon"]

SingleEqualToken == [kind |-> "SingleEqual"]

SemicolonToken == [kind |-> "Semicolon"]

OpenParenToken == [kind |-> "OpenParen"]

CloseParenToken == [kind |-> "CloseParen"]

(***************************************************************************)
(* AST                                                                     *)
(***************************************************************************)
NumberNode(raw, flags) == [type |-> "Number", raw |-> raw, flags |-> flags]

IdentifierNode(name) == [type |-> "Identifier", name |-> name]

BinaryOperation(left, operator, right) ==
    [type |-> "BinaryOperation", left |-> left, operator |-> operator, right |-> right]

LetStatement(value, name, t) ==
    [type |-> "Let", value |-> value, name |-> name, t |-> t]

ExitStatement(value) == [type |-> "Exit", value |-> value]

\* the operator character Display writes
OperatorSymbol(operator) ==
    IF operator = "Plus" THEN "+"
    ELSE IF operator = "Minus" THEN "-"
    ELSE IF operator = "Star" THEN "*"
    ELSE "="

\* Display writing the right operand before the left one
RECURSIVE DisplayRightFirst(_)
DisplayRightFirst(e) ==
    IF e.type = "Number" THEN e.raw
    ELSE IF e.type = "Identifier" THEN e.name
    ELSE DisplayRightFirst(e.right) \o <<OperatorSymbol(e.operator)>>
         \o DisplayRightFirst(e.left)

\* impl Display for AstExpression
RECURSIVE Display(_)
Display(e) ==
    IF e.type = "Number" THEN e.raw
    ELSE IF e.type = "Identifier" THEN e.name
    ELSE Display(e.left) \o <<OperatorSymbol(e.operator)>> \o Display(e.right)

(***************************************************************************)
(* AstParser: expressions.  The parser is its vector of tokens, reversed;  *)
(* peek is the last element and eat pops it.  An expression result holds   *)
(* the node, or the ExpressionParseError with its attached text, and the   *)
(* tokens that are left.                                                   *)
(***************************************************************************)
AstParser_new(tokens) == Reverse(tokens)

AstParser_finished(tokens) == tokens = <<>>

AstParser_peek(tokens) == Last(tokens)

\* the vector eat leaves; what it returns is AstParser_peek
AstParser_eat(tokens) == Pop(tokens)

NoNode == [type |-> "None"]

ExprOk(node, tokens) ==
    [ok |-> TRUE, node |-> node, found |-> None, printable |-> "", tokens |-> tokens]

\* Err(ExpressionParseError::InvalidFactorToken { found }).attach_printable(text)
InvalidFactorToken(found, text, tokens) ==
    [ok |-> FALSE, node |-> NoNode, found |-> found, printable |-> text,
     tokens |-> tokens]

term_operator(token) ==
    token.kind = "BinaryOperator" /\ token.op \in {"Plus", "Minus"}

factor_operator(token) ==
    token.kind = "BinaryOperator" /\ token.op = "Star"

RECURSIVE expression(_), expressionLoop(_, _), term(_), termLoop(_, _), factor(_)

\* the parenthesis arm of factor, after the OpenParen has been eaten
factorParen(tokens) ==
    LET r == expression(tokens)
    IN  IF ~r.ok THEN r
        ELSE IF AstParser_peek(r.tokens) /= None
                /\ AstParser_peek(r.tokens)[1].kind = "CloseParen"
        THEN ExprOk(r.node, AstParser_eat(r.tokens))
        ELSE InvalidFactorToken(AstParser_peek(r.tokens),
                                "unclosed parenthesis found", r.tokens)

factor(tokens) ==
    LET p == AstParser_peek(tokens)
    IN  IF p /= None /\ p[1].kind = "Number"
        THEN ExprOk(NumberNode(p[1].raw, p[1].flags), AstParser_eat(tokens))
        ELSE IF p /= None /\ p[1].kind = "Identifier"
        THEN ExprOk(IdentifierNode(p[1].name), AstParser_eat(tokens))
        ELSE IF p /= None /\ p[1].kind = "OpenParen"
        THEN factorParen(AstParser_eat(tokens))
        ELSE InvalidFactorToken(p, "failed to parse factor", tokens)

\* termStep with the operands exchanged
termStepSwapped(node, op, right) == BinaryOperation(right, op, node)

\* one binary step of term: the node built from the accumulated node and the
\* freshly parsed factor
termStep(node, op, right) == BinaryOperation(node, op, right)

termLoop(node, tokens) ==
    IF is_some_and(AstParser_peek(tokens), factor_operator)
    THEN LET op == AstParser_peek(tokens)[1].op
             r == factor(AstParser_eat(tokens))
         IN  IF ~r.ok THEN r ELSE termLoop(termStep(node, op, r.node), r.tokens)
    ELSE ExprOk(node, tokens)

term(tokens) ==
    LET r == factor(tokens)
    IN  IF ~r.ok THEN r ELSE termLoop(r.node, r.tokens)

\* expressionLoop taking a factor, not a term, as the right operand
expressionLoopFactor(node, tokens) ==
    IF is_some_and(AstParser_peek(tokens), term_operator)
    THEN LET op == AstParser_peek(tokens)[1].op
             r == factor(AstParser_eat(tokens))
         IN  IF ~r.ok THEN r
             ELSE expressionLoop(BinaryOperation(node, op, r.node), r.tokens)
    ELSE termLoop(node, tokens)

\* expressionLoop nesting to the right: the right operand is the whole rest of
\* the expression
expressionLoopRight(node, tokens) ==
    IF is_some_and(AstParser_peek(tokens), term_operator)
    THEN LET op == AstParser_peek(tokens)[1].op
             r == expression(AstParser_eat(tokens))
         IN  IF ~r.ok THEN r
             ELSE ExprOk(BinaryOperation(node, op, r.node), r.tokens)
    ELSE ExprOk(node, tokens)

\* one binary step of expression
expressionStep(node, op, right) == BinaryOperation(node, op, right)

expressionLoop(node, tokens) ==
    IF is_some_and(AstParser_peek(tokens), term_operator)
    THEN LET op == AstParser_peek(tokens)[1].op
             r == term(AstParser_eat(tokens))
         IN  IF ~r.ok THEN r
             ELSE expressionLoop(expressionStep(node, op, r.node), r.tokens)
    ELSE ExprOk(node, tokens)

expression(tokens) ==
    LET r == term(tokens)
    IN  IF ~r.ok THEN r ELSE expressionLoop(r.node, r.tokens)

(***************************************************************************)
(* AstParser: statements.  A parse result is Ok with the nodes, or the     *)
(* AstParseError that is the report's current context, with the frames of  *)
(* the report beneath it (the cause and the attached texts).               *)
(***************************************************************************)
ParseOk(nodes) == [status |-> "Ok", nodes |-> nodes, frames |-> <<>>]

ParseErr(context, frames) == [status |-> context, nodes |-> <<>>, frames |-> frames]

\* the frame an ExpressionParseError leaves in the report
CauseFrame(r) ==
    [context |-> "InvalidFactorToken", found |-> r.found, printable |-> r.printable]

\* change_context losing the frames of the report it is given
change_contextDropCause(r, context) == ParseErr(context, <<>>)

\* ResultExt::change_context: the new context on top, the old frames kept
change_context(r, context) == ParseErr(context, <<CauseFrame(r)>>)

\* letMatch without the check of the shape of the value
letMatchAnyValue(name, t, value) ==
    IF /\ name /= None /\ name[1].kind = "Identifier"
       /\ t /= None /\ t[1].kind = "Identifier"
    THEN Some(LetStatement(value, name[1].name, t[1].name))
    ELSE None

\* the match on (name, t, &value) of the Let arm: the statement, or None
letMatch(name, t, value) ==
    IF /\ name /= None /\ name[1].kind = "Identifier"
       /\ t /= None /\ t[1].kind = "Identifier"
       /\ value.type \in {"BinaryOperation", "Number"}
    THEN Some(LetStatement(value, name[1].name, t[1].name))
    ELSE None

\* the run of Semicolon tokens the Semicolon arm eats
RECURSIVE eatSemicolons(_)
eatSemicolons(tokens) ==
    IF AstParser_peek(tokens) /= None /\ AstParser_peek(tokens)[1].kind = "Semicolon"
    THEN eatSemicolons(AstParser_eat(tokens))
    ELSE tokens

\* the last arm returning what was parsed so far
toplevelPartial(nodes) == ParseOk(nodes)

\* the last arm of the match of parse: the nodes parsed so far are dropped
toplevelError(nodes) == ParseErr("ExpressionAtToplevel", <<>>)

\* the while loop of parse
RECURSIVE parseLoop(_, _)
parseLoop(tokens, nodes) ==
    IF AstParser_finished(tokens)
    THEN ParseOk(nodes)
    ELSE LET first == AstParser_peek(tokens)[1]
         IN  IF first.kind = "Let"
             THEN LET t1 == AstParser_eat(tokens)
                      name == AstParser_peek(t1)
                      t2 == AstParser_eat(AstParser_eat(t1))
                      t == AstParser_peek(t2)
                      t3 == AstParser_eat(AstParser_eat(t2))
                      r == expression(t3)
                  IN  IF ~r.ok
                      THEN change_context(r, "InvalidExpression")
                      ELSE LET stmt == letMatch(name, t, r.node)
                           IN  IF stmt = None
                               THEN ParseErr("InvalidLetStatement", <<>>)
                               ELSE parseLoop(AstParser_eat(r.tokens),
                                              Append(nodes, stmt[1]))
             ELSE IF first.kind = "Exit"
             THEN LET r == expression(AstParser_eat(tokens))
                  IN  IF ~r.ok
                      THEN change_context(r, "InvalidExpression")
                      ELSE parseLoop(r.tokens, Append(nodes, ExitStatement(r.node)))
             ELSE IF first.kind = "Semicolon"
             THEN parseLoop(eatSemicolons(tokens), nodes)
             ELSE toplevelError(nodes)

parse(tokens) == parseLoop(AstParser_new(tokens), <<>>)

(***************************************************************************)
(* IrGenerator                                                             *)
(***************************************************************************)
DefineVariable(name, t, value) ==
    [type |-> "DefineVariable", name |-> name, t |-> t, value |-> value]

ExitIR(value) == [type |-> "Exit", value |-> value]

\* IrGenerator::new without the reverse
IrGenerator_newNoReverse(program) == program

IrGenerator_new(program) == Reverse(program)

\* the match of generate: the instruction of one statement
lowerStatement(stmt) ==
    IF stmt.type = "Exit" THEN ExitIR(stmt.value)
    ELSE DefineVariable(stmt.name, stmt.t, stmt.value)

RECURSIVE generateLoop(_, _)
generateLoop(program, instructions) ==
    IF program = <<>>
    THEN instructions
    ELSE generateLoop(Pop(program),
                      Append(instructions, lowerStatement(program[Len(program)])))

generate(program) == generateLoop(IrGenerator_new(program), <<>>)

(***************************************************************************)
(* CBackend                                                                *)
(***************************************************************************)
CBackend_new(program) == Reverse(program)

\* the four write_all calls before the loop
Prologue ==
    <<
      "#", "i", "n", "c", "l", "u", "d", "e", " ", "<", "s", "t",
      "d", "l", "i", "b", ".", "h", ">", "\n", "#", "i", "n", "c",
      "l", "u", "d", "e", " ", "<", "s", "t", "d", "i", "n", "t",
      ".", "h", ">", "\n", "#", "d", "e", "f", "i", "n", "e", " ",
      "u", "6", "4", " ", "u", "i", "n", "t", "6", "4", "_", "t",
      "\n", "i", "n", "t", " ", "m", "a", "i", "n", "(", ")", " ",
      "{", "\n"
    >>

\* the write_all after the loop
Epilogue == <<"}", "\n">>

\* the text one instruction is written as
emitInstruction(instruction) ==
    IF instruction.type = "DefineVariable"
    THEN instruction.t \o <<" ">> \o instruction.name \o <<" ", "=", " ">>
         \o Display(instruction.value) \o <<";", "\n">>
    ELSE <<"e", "x", "i", "t", "(">> \o Display(instruction.value)
         \o <<")", ";", "\n">>

RECURSIVE compileLoop(_, _)
compileLoop(program, buffer) ==
    IF program = <<>>
    THEN buffer
    ELSE compileLoop(Pop(program),
                     buffer \o emitInstruction(program[Len(program)]))

compile(program) == compileLoop(CBackend_new(program), Prologue) \o Epilogue

(***************************************************************************)
(* Inputs                                                                  *)
(***************************************************************************)
\* the sequences over S of at most n elements
SeqsUpTo(S, n) == UNION {[1..k -> S] : k \in 0..n}

\* the characters source texts are drawn from: whitespace of one and of two
\* bytes, both line terminators, digits, operators and a character that
\* starts no token
LexChars == {" ", "\n", "\r", "NBSP", "1", "2", "+", "-", "*", "#"}

(***************************************************************************)
(* The lexing stage of main                                                *)
(***************************************************************************)
NoParse == [status |-> "None"]

InitLex ==
    /\ source \in SeqsUpTo(LexChars, MaxSrcLen)
    /\ pc = "tokenize"
    /\ lexed = LexOk(<<>>)
    /\ parsed = NoParse
    /\ ir = <<>>
    /\ out = <<>>

Tokenize ==
    /\ pc = "tokenize"
    /\ lexed' = tokenize(source)
    /\ pc' = IF lexed'.status = "Ok" THEN "parse"
             ELSE IF lexed'.status = "Panic" THEN "panicked" ELSE "failed"
    /\ UNCHANGED <<source, parsed, ir, out>>

NextLex == Tokenize

SpecLex == InitLex /\ [][NextLex]_vars

(***************************************************************************)
(* Token sequences handed to the parser                                    *)
(***************************************************************************)
\* the length of the text a token is lexed from
TokenWidth(tok) ==
    IF tok.kind = "Number" THEN Len(tok.raw)
    ELSE IF tok.kind = "Identifier" THEN Len(tok.name)
    ELSE IF tok.kind = "Let" THEN 3
    ELSE IF tok.kind = "Exit" THEN 4
    ELSE 1

\* the tokens with the offsets they have in the text that holds them in this
\* order, separated by single spaces
RECURSIVE WithOffsetsFrom(_, _)
WithOffsetsFrom(toks, offset) ==
    IF toks = <<>> THEN <<>>
    ELSE LET tok == Head(toks)
         IN  <<IF tok.kind \in {"Number", "BinaryOperator"}
               THEN [tok EXCEPT !.offset = offset] ELSE tok>>
             \o WithOffsetsFrom(Tail(toks), offset + TokenWidth(tok) + 1)

WithOffsets(toks) == WithOffsetsFrom(toks, 0)

NumberAtoms == {NumberToken(<<"1">>, 0), NumberToken(<<"2", "3">>, 0)}

Atoms == NumberAtoms \cup {IdentifierToken(<<"x">>)}

OperatorTokens == {BinaryOperatorToken(op, 0) : op \in {"Plus", "Minus", "Star"}}

\* the well-formed expressions of exactly n tokens
RECURSIVE WellFormed(_)
WellFormed(n) ==
    IF n < 1 \/ n % 2 = 0 THEN {}
    ELSE IF n = 1 THEN {<<a>> : a \in Atoms}
    ELSE {<<OpenParenToken>> \o w \o <<CloseParenToken>> : w \in WellFormed(n - 2)}
         \cup UNION {{a \o <<o>> \o b :
                        a \in WellFormed(i), o \in OperatorTokens,
                        b \in WellFormed(n - 1 - i)} : i \in 1..(n - 2)}

\* the well-formed expressions of at most max tokens, and what is left of
\* them when the text ends early
ExprBodies(max) ==
    UNION {{SubSeq(w, 1, k) : k \in 0..Len(w)} :
             w \in UNION {WellFormed(n) : n \in 1..max}}

\* what comes before the expression: nothing, `exit`, and the head of a `let`
\* with an identifier or a number where the name goes
StatementHeads ==
    {<<>>, <<ExitToken>>}
    \cup {<<LetToken, n, ColonToken, IdentifierToken(<<"u", "6", "4">>),
            SingleEqualToken>> : n \in {IdentifierToken(<<"a">>), NumberToken(<<"1">>, 0)}}

\* what comes after the expression
StatementTails ==
    {<<>>, <<SemicolonToken>>, <<NumberToken(<<"2">>, 0)>>,
     <<SemicolonToken, SemicolonToken, ExitToken, NumberToken(<<"2">>, 0)>>}

JunkTokens ==
    {LetToken, ExitToken, ColonToken, SingleEqualToken, SemicolonToken,
     OpenParenToken, CloseParenToken, IdentifierToken(<<"x">>),
     NumberToken(<<"1">>, 0), BinaryOperatorToken("Plus", 0),
     BinaryOperatorToken("Star", 0)}

\* the token sequences of at most maxExpr expression tokens between a head and
\* a tail
StatementInputs(maxExpr) ==
    {WithOffsets(h \o b \o t) :
        h \in StatementHeads, b \in ExprBodies(maxExpr), t \in StatementTails}

\* all sequences of at most maxJunk tokens
JunkInputs(maxJunk) == {WithOffsets(j) : j \in SeqsUpTo(JunkTokens, maxJunk)}

\* `let a <x> u64 <y> 1 <z>` with any token where the Colon and the
\* SingleEqual go, and any token or none where the Semicolon goes
LetSlotInputs ==
    {WithOffsets(<<LetToken, IdentifierToken(<<"a">>), x,
                   IdentifierToken(<<"u", "6", "4">>), y, NumberToken(<<"1">>, 0)>> \o z) :
        x \in JunkTokens, y \in JunkTokens,
        z \in {<<>>} \cup {<<j>> : j \in JunkTokens}}

(***************************************************************************)
(* The stages of main after tokenize                                       *)
(***************************************************************************)
InitParse ==
    /\ source = <<>>
    /\ \/ lexed \in {LexOk(toks) : toks \in StatementInputs(MaxExprToks)}
       \/ lexed \in {LexOk(toks) : toks \in JunkInputs(MaxJunkToks)}
       \/ lexed \in {LexOk(toks) : toks \in LetSlotInputs}
    /\ pc = "parse"
    /\ parsed = NoParse
    /\ ir = <<>>
    /\ out = <<>>

Parse ==
    /\ pc = "parse"
    /\ parsed' = parse(lexed.tokens)
    /\ pc' = IF parsed'.status = "Ok" THEN "lower" ELSE "failed"
    /\ UNCHANGED <<source, lexed, ir, out>>

Lower ==
    /\ pc = "lower"
    /\ ir' = generate(parsed.nodes)
    /\ pc' = "emit"
    /\ UNCHANGED <<source, lexed, parsed, out>>

Emit ==
    /\ pc = "emit"
    /\ out' = compile(ir)
    /\ pc' = "done"
    /\ UNCHANGED <<source, lexed, parsed, ir>>

NextParse == Parse \/ Lower \/ Emit

SpecParse == InitParse /\ [][NextParse]_vars

(***************************************************************************)
(* Helpers of the lexer properties (computed from the source text alone)   *)
(***************************************************************************)
\* the text a token was read from
TokenText(tok) ==
    IF tok.kind = "Number" THEN tok.raw
    ELSE IF tok.kind = "BinaryOperator"
    THEN <<CHOOSE c \in OperatorChars : BinaryOpOf(c) = tok.op>>
    ELSE <<>>

LexableOnly(s) ==
    \A i \in 1..Len(s) : s[i] \in Whitespace \cup Digits \cup OperatorChars

\* the 1-based char indices at which a maximal digit run or an operator starts
TokenStartSet(s) ==
    {i \in 1..Len(s) :
        \/ s[i] \in OperatorChars
        \/ s[i] \in Digits /\ (i = 1 \/ s[i - 1] \notin Digits)}

DigitRunCount(s) ==
    Cardinality({i \in TokenStartSet(s) : s[i] \in Digits})

OperatorCount(s) ==
    Cardinality({i \in 1..Len(s) : s[i] \in OperatorChars})

\* the byte index, in the text, of the character at 1-based char index i
ByteIndex(s, i) == StrLen(SubSeq(s, 1, i - 1))

\* the 1-based char index of the k-th token start
KthStart(s, k) ==
    CHOOSE i \in TokenStartSet(s) :
        Cardinality({j \in TokenStartSet(s) : j < i}) = k - 1

Unexpected(s) ==
    {i \in 1..Len(s) : s[i] \notin Whitespace \cup Digits \cup OperatorChars}

FirstUnexpected(s) == CHOOSE i \in Unexpected(s) : \A j \in Unexpected(s) : i <= j

\* the 1-based line of char index i: one more than the "\n" before it
TrueLine(s, i) == 1 + Cardinality({j \in 1..(i - 1) : s[j] = "\n"})

\* the char index of the last "\n" before i, 0 when there is none
LineStartIndex(s, i) ==
    IF \E j \in 1..(i - 1) : s[j] = "\n"
    THEN CHOOSE j \in 1..(i - 1) :
            s[j] = "\n" /\ \A k \in (j + 1)..(i - 1) : s[k] /= "\n"
    ELSE 0

\* the 1-based column of char index i, counted in characters and in bytes
TrueColumnChars(s, i) == i - LineStartIndex(s, i)

TrueColumnBytes(s, i) == 1 + StrLen(SubSeq(s, LineStartIndex(s, i) + 1, i - 1))

(***************************************************************************)
(* C2                                                                      *)
(***************************************************************************)
\* C2: for a source of whitespace, digits and + - * only, tokenize returns Ok,
\* the number of tokens is the number of maximal digit runs plus the number of
\* operator characters, and the tokens come in source order (offsets strictly
\* increase and each token's text is the source text at its offset).
C2_TokenCount ==
    (pc /= "tokenize" /\ LexableOnly(source)) =>
        /\ lexed.status = "Ok"
        /\ Len(lexed.tokens) = DigitRunCount(source) + OperatorCount(source)
        /\ \A k \in 1..Len(lexed.tokens) :
              LET tok == lexed.tokens[k]
              IN  /\ tok.offset + Len(TokenText(tok)) <= Len(source)
                  /\ SubSeq(source, tok.offset + 1, tok.offset + Len(TokenText(tok)))
                        = TokenText(tok)
                  /\ k > 1 => lexed.tokens[k - 1].offset < tok.offset

\* a two-digit run, an operator and trailing whitespace have been tokenized
C2_Witness ==
    /\ pc = "parse"
    /\ LexableOnly(source)
    /\ Len(source) >= 4
    /\ source[1] \in Digits /\ source[2] \in Digits
    /\ source[3] \in OperatorChars
    /\ source[Len(source)] \in Whitespace
    /\ Len(lexed.tokens) = 2

(***************************************************************************)
(* C3                                                                      *)
(***************************************************************************)
\* C3: a source holding a character that starts no token makes tokenize return
\* UnexpectedChar for the first such character, with that character and its
\* 1-based (line, column) in the source (the column counted in characters or in
\* bytes), whatever precedes it; tokenize never aborts instead.
C3_UnexpectedCharLocation ==
    (pc /= "tokenize" /\ Unexpected(source) /= {}) =>
        LET i == FirstUnexpected(source)
        IN  /\ lexed.status = "UnexpectedChar"
            /\ lexed.char = Some(source[i])
            /\ lexed.line = TrueLine(source, i)
            /\ lexed.column \in {TrueColumnChars(source, i), TrueColumnBytes(source, i)}

\* the part of C3 that says tokenize returns the error and does not abort
C3_NeverAborts == pc /= "panicked"

(***************************************************************************)
(* C4                                                                      *)
(***************************************************************************)
\* C4: every token produced carries as its offset the byte index, in the source
\* text, of the token's first character, whatever whitespace precedes it.
C4_OffsetIsByteIndex ==
    (pc = "parse" /\ LexableOnly(source)) =>
        /\ Len(lexed.tokens) = Cardinality(TokenStartSet(source))
        /\ \A k \in 1..Len(lexed.tokens) :
              lexed.tokens[k].offset = ByteIndex(source, KthStart(source, k))

(***************************************************************************)
(* Helpers of the parser properties (computed from the tokens alone)       *)
(***************************************************************************)
IsNumberTok(t) == t.kind = "Number"

IsAtomTok(t) == t.kind \in {"Number", "Identifier"}

IsOpTok(t, ops) == t.kind = "BinaryOperator" /\ t.op \in ops

AnyOp == {"Plus", "Minus", "Star"}

NumOf(t) == NumberNode(t.raw, t.flags)

\* the number of tokens of the head of the first statement: `exit`, or
\* `let <name> <:> <type> <=>` with identifiers for name and type; 0 otherwise
HeadLen(toks) ==
    IF toks /= <<>> /\ toks[1].kind = "Exit" THEN 1
    ELSE IF /\ Len(toks) >= 5 /\ toks[1].kind = "Let"
            /\ toks[2].kind = "Identifier" /\ toks[4].kind = "Identifier"
    THEN 5
    ELSE 0

\* the statement the head makes of an expression tree
HeadStatement(toks, value) ==
    IF toks[1].kind = "Exit" THEN ExitStatement(value)
    ELSE LetStatement(value, toks[2].name, toks[4].name)

\* the tokens after the head, without a closing semicolon
BodyOf(toks) ==
    LET rest == SubSeq(toks, HeadLen(toks) + 1, Len(toks))
    IN  IF rest /= <<>> /\ rest[Len(rest)].kind = "Semicolon" THEN Pop(rest) ELSE rest

(***************************************************************************)
(* C1                                                                      *)
(***************************************************************************)
\* C1: for number operands a, b, c, the statement whose expression is
\* `a + b * c` or `a - b * c` parses to BinaryOperation(a, op, BinaryOperation(b,
\* Star, c)), and `(a + b) * c` parses to BinaryOperation(BinaryOperation(a, op,
\* b), Star, c).
C1_Precedence ==
    (pc /= "parse" /\ HeadLen(lexed.tokens) > 0) =>
        LET toks == lexed.tokens
            b == BodyOf(toks)
        IN  /\ ( /\ Len(b) = 5
                 /\ IsNumberTok(b[1]) /\ IsOpTok(b[2], {"Plus", "Minus"})
                 /\ IsNumberTok(b[3]) /\ IsOpTok(b[4], {"Star"}) /\ IsNumberTok(b[5]) )
               => parsed = ParseOk(<<HeadStatement(toks,
                      BinaryOperation(NumOf(b[1]), b[2].op,
                          BinaryOperation(NumOf(b[3]), "Star", NumOf(b[5]))))>>)
            /\ ( /\ Len(b) = 7
                 /\ b[1].kind = "OpenParen"
                 /\ IsNumberTok(b[2]) /\ IsOpTok(b[3], {"Plus", "Minus"})
                 /\ IsNumberTok(b[4]) /\ b[5].kind = "CloseParen"
                 /\ IsOpTok(b[6], {"Star"}) /\ IsNumberTok(b[7]) )
               => parsed = ParseOk(<<HeadStatement(toks,
                      BinaryOperation(
                          BinaryOperation(NumOf(b[2]), b[3].op, NumOf(b[4])),
                          "Star", NumOf(b[7])))>>)

\* `let a: u64 = (<a> + <b>) * <c>;` has been parsed
C1_Witness ==
    /\ pc = "done"
    /\ Len(lexed.tokens) = 13
    /\ lexed.tokens[1].kind = "Let"
    /\ lexed.tokens[6].kind = "OpenParen"
    /\ IsOpTok(lexed.tokens[8], {"Plus"})
    /\ lexed.tokens[10].kind = "CloseParen"
    /\ IsOpTok(lexed.tokens[11], {"Star"})
    /\ lexed.tokens[13].kind = "Semicolon"
    /\ Len(parsed.nodes) = 1
    /\ parsed.nodes[1].value.operator = "Star"
    /\ parsed.nodes[1].value.left.type = "BinaryOperation"

(***************************************************************************)
(* C6                                                                      *)
(***************************************************************************)
\* the result of parsing the expression that starts at the 6th token
LetValue(toks) == expression(AstParser_new(SubSeq(toks, 6, Len(toks))))

\* C6: a let statement whose right-hand side parses to a bare Identifier node is
\* rejected with InvalidLetStatement and no statements are returned; with
\* identifiers for name and type and a right-hand side that parses to a Number
\* or a BinaryOperation, the statement parsed is Let with that name, type name
\* and expression tree.
C6_LetValueShape ==
    (pc /= "parse" /\ lexed.tokens /= <<>> /\ lexed.tokens[1].kind = "Let"
        /\ LetValue(lexed.tokens).ok) =>
        LET toks == lexed.tokens
            r == LetValue(toks)
        IN  /\ r.node.type = "Identifier"
               => parsed = ParseErr("InvalidLetStatement", <<>>)
            /\ ( /\ r.node.type \in {"Number", "BinaryOperation"}
                 /\ HeadLen(toks) = 5 )
               => /\ parsed.status = "Ok"
                     => parsed.nodes[1] = LetStatement(r.node, toks[2].name, toks[4].name)
                  /\ Len(r.tokens) <= 1
                     => parsed = ParseOk(<<LetStatement(r.node, toks[2].name, toks[4].name)>>)

\* `let a: u64 = (x);` has been rejected
C6_Witness ==
    /\ pc = "failed"
    /\ parsed.status = "InvalidLetStatement"
    /\ Len(lexed.tokens) = 9
    /\ HeadLen(lexed.tokens) = 5
    /\ lexed.tokens[6].kind = "OpenParen"
    /\ lexed.tokens[7].kind = "Identifier"
    /\ lexed.tokens[8].kind = "CloseParen"
    /\ lexed.tokens[9].kind = "Semicolon"

(***************************************************************************)
(* C7                                                                      *)
(***************************************************************************)
\* the number of tokens before the expression of the first statement: 1 for
\* `exit`, 5 for `let` and the four tokens after it, whatever they are
ExprStart(toks) ==
    IF toks /= <<>> /\ toks[1].kind = "Exit" THEN 1
    ELSE IF Len(toks) >= 5 /\ toks[1].kind = "Let" THEN 5
    ELSE 0

\* a factor is expected after these tokens: ( `(` | atom operator )*
RECURSIVE ExpectsFactor(_)
ExpectsFactor(s) ==
    \/ s = <<>>
    \/ s[Len(s)].kind = "OpenParen" /\ ExpectsFactor(Pop(s))
    \/ /\ Len(s) >= 2
       /\ IsOpTok(s[Len(s)], AnyOp) /\ IsAtomTok(s[Len(s) - 1])
       /\ ExpectsFactor(SubSeq(s, 1, Len(s) - 2))

\* atom ( operator atom )*
RECURSIVE IsChain(_)
IsChain(s) ==
    \/ Len(s) = 1 /\ IsAtomTok(s[1])
    \/ /\ Len(s) >= 3
       /\ IsAtomTok(s[Len(s)]) /\ IsOpTok(s[Len(s) - 1], AnyOp)
       /\ IsChain(SubSeq(s, 1, Len(s) - 2))

TokenAt(toks, k) == IF k > Len(toks) THEN None ELSE Some(toks[k])

\* C7: at a factor position, a token other than Number, Identifier or OpenParen,
\* or the end of input, makes parse fail with InvalidFactorToken carrying that
\* token (None at the end); an open parenthesis whose inner expression is not
\* followed by CloseParen fails with InvalidFactorToken carrying the token found
\* there (None at the end); parse's error keeps that cause beneath its context.
C7_InvalidFactorToken ==
    (pc /= "parse" /\ ExprStart(lexed.tokens) > 0) =>
        LET toks == lexed.tokens
            h == ExprStart(toks)
        IN  /\ \A k \in h..Len(toks) :
                 ( /\ ExpectsFactor(SubSeq(toks, h + 1, k))
                   /\ \/ k = Len(toks)
                      \/ toks[k + 1].kind \notin {"Number", "Identifier", "OpenParen"} )
                 => parsed = ParseErr("InvalidExpression",
                        <<[context |-> "InvalidFactorToken",
                           found |-> TokenAt(toks, k + 1),
                           printable |-> "failed to parse factor"]>>)
            /\ \A k \in (h + 1)..Len(toks) : \A m \in (k + 1)..Len(toks) :
                 ( /\ ExpectsFactor(SubSeq(toks, h + 1, k))
                   /\ toks[k].kind = "OpenParen"
                   /\ IsChain(SubSeq(toks, k + 1, m))
                   /\ \/ m = Len(toks)
                      \/ toks[m + 1].kind \notin {"CloseParen", "BinaryOperator"} )
                 => parsed = ParseErr("InvalidExpression",
                        <<[context |-> "InvalidFactorToken",
                           found |-> TokenAt(toks, m + 1),
                           printable |-> "unclosed parenthesis found"]>>)

\* `exit (<a> + <b>` has failed at the end of input
C7_Witness ==
    /\ pc = "failed"
    /\ Len(lexed.tokens) = 5
    /\ lexed.tokens[1].kind = "Exit"
    /\ lexed.tokens[2].kind = "OpenParen"
    /\ IsChain(SubSeq(lexed.tokens, 3, 5))
    /\ parsed.status = "InvalidExpression"
    /\ parsed.frames[1].context = "InvalidFactorToken"
    /\ parsed.frames[1].found = None

(***************************************************************************)
(* C8                                                                      *)
(***************************************************************************)
\* the first index from i on that holds no Semicolon
RECURSIVE SkipSemicolons(_, _)
SkipSemicolons(toks, i) ==
    IF i <= Len(toks) /\ toks[i].kind = "Semicolon"
    THEN SkipSemicolons(toks, i + 1) ELSE i

\* `exit <atom>` at i, not followed by an operator
IsExitAtom(toks, i) ==
    /\ i + 1 <= Len(toks)
    /\ toks[i].kind = "Exit" /\ IsAtomTok(toks[i + 1])
    /\ (i + 2 <= Len(toks) => toks[i + 2].kind /= "BinaryOperator")

\* `let <ident> : <ident> = <number> ;` at i
IsLetNumber(toks, i) ==
    /\ i + 6 <= Len(toks)
    /\ toks[i].kind = "Let" /\ toks[i + 1].kind = "Identifier"
    /\ toks[i + 2].kind = "Colon" /\ toks[i + 3].kind = "Identifier"
    /\ toks[i + 4].kind = "SingleEqual" /\ toks[i + 5].kind = "Number"
    /\ toks[i + 6].kind = "Semicolon"

\* the statements of a completed statement at i, and the index after it
StatementAt(toks, i) ==
    IF IsExitAtom(toks, i)
    THEN <<i + 2, <<ExitStatement(IF toks[i + 1].kind = "Number" THEN NumOf(toks[i + 1])
                                  ELSE IdentifierNode(toks[i + 1].name))>>>>
    ELSE IF IsLetNumber(toks, i)
    THEN <<i + 7, <<LetStatement(NumOf(toks[i + 5]), toks[i + 1].name, toks[i + 3].name)>>>>
    ELSE <<i, <<>>>>

\* C8: a token at statement position (at the start, or after a completed
\* statement, in both cases after any run of semicolons) that is not Let, Exit
\* or Semicolon makes parse fail with ExpressionAtToplevel and return no
\* statements, not even the one parsed before; runs of semicolons at statement
\* position are consumed and produce no statement.
C8_ExpressionAtToplevel ==
    pc /= "parse" =>
        LET toks == lexed.tokens
            i1 == SkipSemicolons(toks, 1)
            st == StatementAt(toks, i1)
            i3 == SkipSemicolons(toks, st[1])
        IN  /\ (i3 <= Len(toks) /\ toks[i3].kind \notin {"Let", "Exit", "Semicolon"})
               => parsed = ParseErr("ExpressionAtToplevel", <<>>)
            /\ i3 > Len(toks) => parsed = ParseOk(st[2])

\* `exit <atom>` followed by an expression token has failed
C8_Witness ==
    /\ pc = "failed"
    /\ parsed.status = "ExpressionAtToplevel"
    /\ parsed.nodes = <<>>
    /\ Len(lexed.tokens) = 3
    /\ IsExitAtom(lexed.tokens, 1)
    /\ lexed.tokens[3].kind = "Number"

(***************************************************************************)
(* Lowering and emission of any statement sequence                         *)
(***************************************************************************)
\* expression trees as the parser builds them
SampleValues ==
    {NumberNode(<<"1">>, <<>>),
     BinaryOperation(NumberNode(<<"1">>, <<>>), "Minus", NumberNode(<<"2", "3">>, <<>>)),
     BinaryOperation(
         BinaryOperation(NumberNode(<<"1">>, <<>>), "Plus", IdentifierNode(<<"x">>)),
         "Star", NumberNode(<<"2">>, <<>>))}

\* the statements parse can return: a Let holds a Number or a BinaryOperation
SampleStatements ==
    {LetStatement(v, n, <<"u", "6", "4">>) : v \in SampleValues, n \in {<<"a">>, <<"b">>}}
    \cup {ExitStatement(v) : v \in SampleValues \cup {IdentifierNode(<<"a">>)}}

InitLower ==
    /\ source = <<>>
    /\ lexed = LexOk(<<>>)
    /\ parsed \in {ParseOk(p) : p \in SeqsUpTo(SampleStatements, MaxStmts)}
    /\ pc = "lower"
    /\ ir = <<>>
    /\ out = <<>>

NextLower == Lower \/ Emit

SpecLower == InitLower /\ [][NextLower]_vars

(***************************************************************************)
(* C9                                                                      *)
(***************************************************************************)
\* the line the claim gives for one statement
ExpectedLine(stmt) ==
    IF stmt.type = "Let"
    THEN stmt.t \o <<" ">> \o stmt.name \o <<" ", "=", " ">> \o Display(stmt.value)
         \o <<";", "\n">>
    ELSE <<"e", "x", "i", "t", "(">> \o Display(stmt.value) \o <<")", ";", "\n">>

RECURSIVE ExpectedLines(_)
ExpectedLines(stmts) ==
    IF stmts = <<>> THEN <<>>
    ELSE ExpectedLine(Head(stmts)) \o ExpectedLines(Tail(stmts))

\* C9: lowering then emitting the statements s1..sn gives the prologue, then one
\* line per statement in the order s1..sn (`<t> <name> = <value>;` for a Let,
\* `exit(<value>);` for an Exit), then the epilogue; the instructions are in
\* the same order and carry the statements' fields.
C9_OrderPreserved ==
    /\ pc \in {"emit", "done"} =>
          /\ Len(ir) = Len(parsed.nodes)
          /\ \A i \in 1..Len(ir) :
                /\ ir[i].value = parsed.nodes[i].value
                /\ ir[i].type = IF parsed.nodes[i].type = "Let"
                                THEN "DefineVariable" ELSE "Exit"
    /\ pc = "done" => out = Prologue \o ExpectedLines(parsed.nodes) \o Epilogue

\* three statements, the first and the last different, have been emitted
C9_Witness ==
    /\ pc = "done"
    /\ Len(parsed.nodes) = 3
    /\ parsed.nodes[1].type = "Let"
    /\ parsed.nodes[2].type = "Exit"
    /\ parsed.nodes[3].type = "Let"
    /\ parsed.nodes[1] /= parsed.nodes[3]
    /\ Len(out) > Len(Prologue) + Len(Epilogue)

(***************************************************************************)
(* C10                                                                     *)
(***************************************************************************)
IsParenTok(t) == t.kind \in {"OpenParen", "CloseParen"}

NotParenTok(t) == ~IsParenTok(t)

\* only numbers, operators and parentheses
ArithmeticOnly(b) ==
    \A i \in 1..Len(b) : IsNumberTok(b[i]) \/ IsOpTok(b[i], AnyOp) \/ IsParenTok(b[i])

\* the expression portion of the one emitted line
ExprPortion ==
    LET stmt == parsed.nodes[1]
        lead == IF stmt.type = "Exit" THEN 5 ELSE Len(stmt.t) + Len(stmt.name) + 4
        trail == IF stmt.type = "Exit" THEN 3 ELSE 2
    IN  SubSeq(out, Len(Prologue) + lead + 1, Len(out) - Len(Epilogue) - trail)

\* the one statement's expression takes all of the body, is built of numbers,
\* operators and parentheses, and parses to the same tree without its parentheses
RoundTripCase ==
    /\ pc = "done"
    /\ HeadLen(lexed.tokens) > 0
    /\ Len(parsed.nodes) = 1
    /\ LET b == BodyOf(lexed.tokens)
           r == expression(AstParser_new(b))
           q == expression(AstParser_new(SelectSeq(b, NotParenTok)))
       IN  /\ ArithmeticOnly(b)
           /\ r.ok /\ r.tokens = <<>>
           /\ q.ok /\ q.tokens = <<>>
           /\ q.node = parsed.nodes[1].value

\* C10: for an expression of digits, + - * and parentheses whose removal does
\* not change the grouping, lexing and parsing the expression portion of the
\* emitted text gives a tree equal to the one that was emitted.
C10_RoundTrip ==
    RoundTripCase =>
        LET relexed == tokenize(ExprPortion)
            r == expression(AstParser_new(relexed.tokens))
        IN  /\ relexed.status = "Ok"
            /\ r.ok /\ r.tokens = <<>>
            /\ r.node = parsed.nodes[1].value

\* `(<a> * <b>) - <c>` has been emitted: the parentheses do not change the tree
C10_Witness ==
    /\ RoundTripCase
    /\ Len(BodyOf(lexed.tokens)) = 7
    /\ BodyOf(lexed.tokens)[1].kind = "OpenParen"
    /\ IsOpTok(BodyOf(lexed.tokens)[3], {"Star"})
    /\ BodyOf(lexed.tokens)[5].kind = "CloseParen"
    /\ IsOpTok(BodyOf(lexed.tokens)[6], {"Minus"})
    /\ parsed.nodes[1].value.left.type = "BinaryOperation"

(***************************************************************************)
(* The lexer of the full grammar: the arms of tokenize for identifiers,    *)
(* reserved words and punctuation, which ast.rs relies on                  *)
(***************************************************************************)
Letters ==
    {"a", "b", "c", "d", "e", "f", "g", "h", "i", "j", "k", "l", "m",
     "n", "o", "p", "q", "r", "s", "t", "u", "v", "w", "x", "y", "z"}

is_alphabetic(c) == c \in Letters

is_word_char(c) == c \in Letters \cup Digits \cup {"_"}

PunctuationChars == {":", "=", ";", "(", ")"}

PunctuationToken(c) ==
    IF c = ":" THEN ColonToken
    ELSE IF c = "=" THEN SingleEqualToken
    ELSE IF c = ";" THEN SemicolonToken
    ELSE IF c = "(" THEN OpenParenToken
    ELSE CloseParenToken

\* the maximal run of alphanumeric and underscore characters
RECURSIVE lexWordChars(_, _)
lexWordChars(self, buffer) ==
    IF is_some_and(Tokenizer_peek(self), is_word_char)
    THEN lexWordChars(Tokenizer_consume(self), Append(buffer, Tokenizer_peek(self)[1]))
    ELSE <<self, buffer>>

WordToken(word) ==
    IF word = <<"l", "e", "t">> THEN LetToken
    ELSE IF word = <<"e", "x", "i", "t">> THEN ExitToken
    ELSE IdentifierToken(word)

lexWord(self) ==
    LET r == lexWordChars(self, <<>>)
    IN  <<r[1], WordToken(r[2])>>

lexPunctuation(self) ==
    <<Tokenizer_consume(self), PunctuationToken(Tokenizer_peek(self)[1])>>

RECURSIVE tokenizeFullLoop(_, _)
tokenizeFullLoop(self0, tokens) ==
    IF Tokenizer_finished(self0)
    THEN LexOk(tokens)
    ELSE LET self == trim_whitespace(self0)
             p == Tokenizer_peek(self)
         IN  IF is_some_and(p, is_ascii_digit)
             THEN LET r == lexNumber(self)
                  IN  tokenizeFullLoop(r[1], Append(tokens, r[2]))
             ELSE IF is_some_and(p, is_alphabetic)
             THEN LET r == lexWord(self)
                  IN  tokenizeFullLoop(r[1], Append(tokens, r[2]))
             ELSE IF p = None
             THEN LexOk(tokens)
             ELSE IF p[1] \in OperatorChars
             THEN LET r == lexOperator(self)
                  IN  tokenizeFullLoop(r[1], Append(tokens, r[2]))
             ELSE IF p[1] \in PunctuationChars
             THEN LET r == lexPunctuation(self)
                  IN  tokenizeFullLoop(r[1], Append(tokens, r[2]))
             ELSE lexError(self)

tokenizeFull(source_code) == tokenizeFullLoop(Tokenizer_new(source_code), <<>>)

\* the source of tests::let_statement
LetSample ==
    <<
      "l", "e", "t", " ", "a", ":", " ", "u", "6", "4", " ", "=",
      " ", "(", "1", "2", "3", " ", "+", " ", "6", "9", ")", " ",
      "*", " ", "2", ";"
    >>

ExitSample == <<"e", "x", "i", "t", " ", "2", ";">>

WordChars == {"l", "e", "t", "x", "i", "_", "1", " ", ";"}

\* short texts of words, the two samples, and texts of punctuation
FullSources(max) ==
    SeqsUpTo(WordChars, max)
    \cup SeqsUpTo(PunctuationChars \cup {"a", "#"}, 2)
    \cup {LetSample, ExitSample}

InitFull ==
    /\ source \in FullSources(MaxWordLen)
    /\ pc = "tokenize"
    /\ lexed = LexOk(<<>>)
    /\ parsed = NoParse
    /\ ir = <<>>
    /\ out = <<>>

TokenizeFull ==
    /\ pc = "tokenize"
    /\ lexed' = tokenizeFull(source)
    /\ pc' = IF lexed'.status = "Ok" THEN "parse"
             ELSE IF lexed'.status = "Panic" THEN "panicked" ELSE "failed"
    /\ UNCHANGED <<source, parsed, ir, out>>

NextFull == TokenizeFull \/ Parse \/ Lower \/ Emit

SpecFull == InitFull /\ [][NextFull]_vars

(***************************************************************************)
(* C5                                                                      *)
(***************************************************************************)
\* the maximal runs of word characters that start with a letter: <<first, last>>
WordRuns(s) ==
    {<<i, j>> \in (1..Len(s)) \X (1..Len(s)) :
        /\ i <= j
        /\ \A k \in i..j : is_word_char(s[k])
        /\ is_alphabetic(s[i])
        /\ (i = 1 \/ ~is_word_char(s[i - 1]))
        /\ (j = Len(s) \/ ~is_word_char(s[j + 1]))}

\* the places where a token starts in a text of words, spaces and punctuation
FullStarts(s) ==
    {i \in 1..Len(s) :
        \/ s[i] \in PunctuationChars \cup OperatorChars
        \/ is_word_char(s[i]) /\ (i = 1 \/ ~is_word_char(s[i - 1]))}

\* no run of word characters starts with a digit or an underscore
PlainWords(s) ==
    /\ \A i \in 1..Len(s) :
          s[i] \in Whitespace \cup Letters \cup Digits \cup {"_"} \cup PunctuationChars
    /\ \A i \in FullStarts(s) : s[i] \in PunctuationChars \cup Letters

\* the token the claim gives for what starts at i
ExpectedFullToken(s, i) ==
    IF s[i] = ":" THEN ColonToken
    ELSE IF s[i] = "=" THEN SingleEqualToken
    ELSE IF s[i] = ";" THEN SemicolonToken
    ELSE IF s[i] = "(" THEN OpenParenToken
    ELSE IF s[i] = ")" THEN CloseParenToken
    ELSE LET run == CHOOSE r \in WordRuns(s) : r[1] = i
             word == SubSeq(s, run[1], run[2])
         IN  IF word = <<"l", "e", "t">> THEN [kind |-> "Let"]
             ELSE IF word = <<"e", "x", "i", "t">> THEN [kind |-> "Exit"]
             ELSE [kind |-> "Identifier", name |-> word]

KthFullStart(s, k) ==
    CHOOSE i \in FullStarts(s) : Cardinality({j \in FullStarts(s) : j < i}) = k - 1

LetPunctuated(toks) ==
    /\ Len(toks) >= 5
    /\ toks[3].kind = "Colon"
    /\ toks[5].kind = "SingleEqual"
    /\ LetValue(toks).ok
    /\ AstParser_peek(LetValue(toks).tokens) /= None
    /\ AstParser_peek(LetValue(toks).tokens)[1].kind = "Semicolon"

\* C11: when the token where the Colon, the SingleEqual or the Semicolon of a
\* let statement goes is another token or is missing, parse returns an error
\* and no Let statement.
C11_LetPunctuation ==
    (/\ pc /= "parse"
     /\ lexed.tokens /= <<>>
     /\ lexed.tokens[1].kind = "Let"
     /\ ~LetPunctuated(lexed.tokens)) => parsed.status /= "Ok"

\* the end of input where the Colon or the SingleEqual goes is an error, since
\* no expression follows
C11_EndBeforeValue ==
    (/\ pc /= "parse"
     /\ lexed.tokens /= <<>>
     /\ lexed.tokens[1].kind = "Let"
     /\ Len(lexed.tokens) < 5) => parsed.status = "InvalidExpression"

(***************************************************************************)
(* C12                                                                     *)
(***************************************************************************)
\* the node of an atom token
AtomNode(t) == IF IsNumberTok(t) THEN NumOf(t) ELSE IdentifierNode(t.name)

\* x1 op1 x2 ... opk x(k+1) with k >= 1 and every operator in ops
SameLevelChain(b, ops) ==
    /\ Len(b) >= 3
    /\ Len(b) % 2 = 1
    /\ \A i \in 1..Len(b) :
          IF i % 2 = 1 THEN IsAtomTok(b[i]) ELSE IsOpTok(b[i], ops)

\* the left-nested tree of a chain
RECURSIVE LeftNest(_)
LeftNest(b) ==
    IF Len(b) = 1 THEN AtomNode(b[1])
    ELSE BinaryOperation(LeftNest(SubSeq(b, 1, Len(b) - 2)),
                         b[Len(b) - 1].op, AtomNode(b[Len(b)]))

\* C12: a chain x1 op1 x2 ... opk x(k+1) whose operators are all + or -, or all
\* *, parses to the left-nested tree, and the expression parser leaves exactly
\* the tokens that follow the chain.
C12_LeftAssociative ==
    (pc /= "parse" /\ HeadLen(lexed.tokens) > 0) =>
        LET toks == lexed.tokens
            b == BodyOf(toks)
            rest == SubSeq(toks, HeadLen(toks) + 1, Len(toks))
            r == expression(AstParser_new(rest))
        IN  (SameLevelChain(b, {"Plus", "Minus"}) \/ SameLevelChain(b, {"Star"})) =>
                /\ parsed = ParseOk(<<HeadStatement(toks, LeftNest(b))>>)
                /\ r.ok
                /\ r.node = LeftNest(b)
                /\ r.tokens = AstParser_new(SubSeq(rest, Len(b) + 1, Len(rest)))

\* `exit <x1> - <x2> + <x3> - <x4>` style chains of four operands with a Minus
\* first have been parsed to a tree nested three deep on the left
C12_Witness ==
    /\ pc = "done"
    /\ HeadLen(lexed.tokens) > 0
    /\ Len(BodyOf(lexed.tokens)) = 7
    /\ SameLevelChain(BodyOf(lexed.tokens), {"Plus", "Minus"})
    /\ BodyOf(lexed.tokens)[2].op = "Minus"
    /\ Len(parsed.nodes) = 1
    /\ parsed.nodes[1].value.left.left.type = "BinaryOperation"
    /\ parsed.nodes[1].value.left.left.operator = "Minus"
    /\ parsed.nodes[1].value.right.type \in {"Number", "Identifier"}

====
